---- MODULE Spec2Model ----
(***************************************************************************)
(* The scheduled / retryable job dispatch of AI-Token-Launchpad:           *)
(*   social_media/tasks.py     post_to_social_media, process_scheduled_posts, *)
(*                             process_social_webhooks                     *)
(*   social_media/services.py  SocialMediaService.post_content,            *)
(*                             SocialMediaService.process_scheduled_posts  *)
(*   ai_agents/tasks.py        generate_ai_content, sync_ai_agent_metrics, *)
(*                             cleanup_ai_interactions                     *)
(*   social_media/tasks.py     cleanup_failed_posts                        *)
(*   social_media/models.py    SocialMediaPost.engagement_rate             *)
(* The database rows (SocialMediaPost, SocialMediaSchedule), the Celery    *)
(* queue and every running task execution are state.  Third-party calls    *)
(* (the platform API, the broker, the database write inside the sweeper's  *)
(* try block) succeed or fail nondeterministically.  A coroutine function  *)
(* called without await runs nothing and hands back a coroutine object.    *)
(***************************************************************************)
EXTENDS Integers, Sequences, FiniteSets, TLC

(* ------------------------------ bounds --------------------------------- *)
MaxTime == 1        \* the clock (minutes) stops here
MaxTasks == 2       \* task ids handed out by .delay()
MaxWebhooks == 1    \* webhook events delivered
MaxServicePasses == 1  \* passes of SocialMediaService.process_scheduled_posts
MaxMetric == 1      \* largest count of an engagement metric

(* ------------------------- program constants --------------------------- *)
TaskMaxRetries == 3       \* @shared_task(bind=True, max_retries=3)
AiTaskMaxRetries == 3     \* @shared_task(bind=True, max_retries=3)
BackoffBase == 60         \* countdown=60 * (2**self.request.retries)
ScheduleMaxRetries == 3   \* max_retries = PositiveIntegerField(default=3)
RetryStepMinutes == 5     \* timedelta(minutes=5 * schedule.retry_count)

(* ------------------------------ values --------------------------------- *)
None == "<None>"          \* Python None / SQL NULL
NoTime == 0 - 1           \* a DateTimeField that is NULL

PostIds == {"p1", "p2"}
SchedIds == {"s1", "s2"}
Sweepers == {"w1", "w2"}                \* workers able to run the sweeper task
PostOf == [s \in SchedIds |-> IF s = "s1" THEN "p1" ELSE "p2"]   \* OneToOneField
SchedRank == [s \in SchedIds |-> IF s = "s1" THEN 1 ELSE 2]

\* SocialMediaPost.platform is a free CharField: p1 carries the key of
\* SocialMediaService.platforms, p2 the value of PLATFORM_CHOICES
PlatformOf == [p \in PostIds |-> IF p = "p1" THEN "linkedin" ELSE "LINKEDIN"]
ExternalIds == {"x1"}                   \* ids the platform API hands out
\* str() of the exception a third party raises.  An exception raised
\* without arguments has the empty str(): the message the code records is
\* then whatever the code itself puts around it.
ThirdPartyMsgs == {""}                  \* raised by the platform API
BrokerMsgs == {""}                      \* raised by the broker or the database

NonEmpty(x) == x # None /\ x # ""

RECURSIVE Pow2(_)
Pow2(n) == IF n = 0 THEN 1 ELSE 2 * Pow2(n - 1)

(* ------------------------------ state ---------------------------------- *)
VARIABLES
    now,            \* timezone.now(), in minutes
    posts,          \* SocialMediaPost rows
    schedules,      \* SocialMediaSchedule rows
    queue,          \* task messages held by the broker
    running,        \* task executions between their load and their write
    nextTask,       \* next task id .delay() hands out
    sweep,          \* per worker: the running pass of process_scheduled_posts
    webhooks,       \* webhook events processed so far
    servicePasses,  \* passes of the service-level sweeper so far
    submissions,    \* history: .delay() calls the task sweeper made per entry
    exhausted,      \* history: executions whose self.retry re-raised the exception
    interactions,   \* AIInteraction rows
    agents,         \* AIAgent rows
    returned,       \* what the last maintenance task, property or service call returned
    cache,          \* django.core.cache: the rate-limit counters by key
    calls,          \* per caller: the service call or web request in progress
    admitted,       \* history: calls admitted per key since the counter was created
    nonces,         \* Web3Nonce rows, by address
    issued,         \* history: how many nonces web3_get_nonce has drawn
    logins          \* history: successful web3_verify responses, with the nonce used

(* the state of the services and views that callers reach directly *)
requestVars == << cache, calls, admitted, nonces, issued, logins >>

vars == << now, posts, schedules, queue, running, nextTask, sweep, webhooks,
           servicePasses, submissions, exhausted, interactions, agents,
           returned, requestVars >>

(* SocialMediaPost: the fields the dispatch code reads or writes *)
EmptyDict == [k \in {} |-> 0]          \* JSONField(default=dict)

NewPost(platform, status) ==
    [ platform |-> platform, status |-> status, platform_post_id |-> None,
      platform_url |-> None, published_at |-> NoTime, error_message |-> "",
      metrics |-> EmptyDict, created_at |-> 0 ]

(* SocialMediaSchedule with its field defaults *)
NewSchedule(post, t) ==
    [ post |-> post, scheduled_time |-> t, is_processed |-> FALSE,
      processed_at |-> NoTime, retry_count |-> 0,
      max_retries |-> ScheduleMaxRetries, next_retry |-> NoTime,
      error_message |-> "" ]

IdleSweep == [ pc |-> "idle", snap |-> << >>, i |-> 1, count |-> 0,
               submitted |-> {}, marked |-> {} ]

(* nothing has returned yet *)
NoReturn == [ task |-> None, ok |-> TRUE, value |-> None ]

Callers == {"c1", "c2"}                 \* clients whose calls are served side by side
NoCall == [ pc |-> "idle" ]

(* no service call and no web request has been made *)
RequestInit ==
    /\ cache = [ k \in {} |-> 0 ]
    /\ calls = [ c \in Callers |-> NoCall ]
    /\ admitted = [ k \in {} |-> 0 ]
    /\ nonces = [ a \in {} |-> None ]
    /\ issued = 0
    /\ logins = {}

(* the dispatch machinery at rest *)
DispatchInit ==
    /\ RequestInit
    /\ queue = {}
    /\ running = {}
    /\ nextTask = 1
    /\ sweep = [w \in Sweepers |-> IdleSweep]
    /\ webhooks = 0
    /\ servicePasses = 0
    /\ submissions = [s \in SchedIds |-> 0]
    /\ exhausted = {}

Init ==
    /\ now = 0
    /\ posts = [p \in PostIds |-> NewPost(PlatformOf[p], "SCHEDULED")]
    /\ schedules = [s \in SchedIds |->
                       NewSchedule(PostOf[s], IF s = "s1" THEN 0 ELSE 1)]
    /\ DispatchInit
    /\ interactions = {}
    /\ agents = [a \in {} |-> None]
    /\ returned = NoReturn

(* ---------------------- social_media/services.py ----------------------- *)
(* What the platform API does when LinkedInService.post calls it: it       *)
(* answers, with or without the x-linkedin-id header, or the call raises.  *)
ThirdParty ==
    { [ok |-> TRUE, post_id |-> i, msg |-> ""] : i \in ExternalIds \cup {None} }
    \cup { [ok |-> FALSE, post_id |-> None, msg |-> m] : m \in ThirdPartyMsgs }

(* how a call ends: with a value (a dictionary, or a coroutine object that *)
(* was handed back without running) or with an exception                   *)
Return(post_id, url) ==
    [ok |-> TRUE, coroutine |-> FALSE, post_id |-> post_id, url |-> url, msg |-> ""]
Coroutine ==
    [ok |-> TRUE, coroutine |-> TRUE, post_id |-> None, url |-> None, msg |-> ""]
Raise(msg) ==
    [ok |-> FALSE, coroutine |-> FALSE, post_id |-> None, url |-> None, msg |-> msg]

(* what an f-string makes of a value *)
Str(x) == IF x = None THEN "None" ELSE x

(* LinkedInService.post: post_id = response.headers.get("x-linkedin-id"),  *)
(* the url is an f-string over it; every exception is re-raised wrapped.   *)
LinkedInService_post(o) ==
    IF o.ok
    THEN Return(o.post_id, "https://www.linkedin.com/feed/update/" \o Str(o.post_id))
    ELSE Raise("LinkedIn posting failed: " \o o.msg)

(* SocialMediaService.__init__: the keys of self.platforms *)
PlatformKeys == {"twitter", "linkedin", "facebook", "instagram"}

(* SocialMediaService.post_content is declared `async def`: the call of    *)
(* post_to_social_media, which does not await it, runs none of its body    *)
(* and gets a coroutine object.                                            *)
post_content(platform) == Coroutine

(* result.get(key) on what a call returned: a dictionary gives its entry,  *)
(* a coroutine object has no such attribute                                *)
Get(result) ==
    IF result.coroutine
    THEN Raise("'coroutine' object has no attribute 'get'")
    ELSE result

(* ------------------------- Celery's Task.retry -------------------------- *)
(* self.retry(exc=e, countdown=c): with request.retries + 1 <= max_retries *)
(* the task is sent again with retries + 1 and Retry is raised; otherwise  *)
(* exc is re-raised and nothing is sent.                                   *)

(* fault injection: the retry limit compared one attempt too late *)
CanRetry_OffByOne(requestRetries, maxRetries) == requestRetries <= maxRetries

CanRetry(requestRetries, maxRetries) == requestRetries + 1 <= maxRetries

(* fault injection: a backoff that grows linearly *)
Countdown_Linear(requestRetries) == BackoffBase * (requestRetries + 1)

Countdown(requestRetries) == BackoffBase * Pow2(requestRetries)

Message(task, kind, post, retries, countdown) ==
    [ task |-> task, kind |-> kind, post |-> post, retries |-> retries,
      countdown |-> countdown ]

(* the effect of `raise self.retry(exc=e, countdown=...)` on the queue and *)
(* on the history variables, for execution x of a task with limit max      *)
RetryEffect(x, max, q) ==
    IF CanRetry(x.retries, max)
    THEN /\ queue' = q \cup { Message(x.task, x.kind, x.post, x.retries + 1,
                                      Countdown(x.retries)) }
         /\ exhausted' = exhausted
    ELSE /\ queue' = q
         /\ exhausted' = exhausted \cup
                { [task |-> x.task, kind |-> x.kind, post |-> x.post,
                   retries |-> x.retries] }

(* ------------------- tasks.py: post_to_social_media --------------------- *)
(* Lines 24-34: the worker takes the message, loads the post, calls        *)
(* post_content and reads the result; an exception ends the try block.     *)
HandlerLoad(m) ==
    /\ m \in queue
    /\ m.kind = "post"
    /\ LET post == posts[m.post] IN
       running' = running \cup
           { [ task |-> m.task, kind |-> m.kind, post |-> m.post,
               retries |-> m.retries, loaded |-> post,
               outcome |-> Get(post_content(post.platform)) ] }
    /\ queue' = queue \ {m}
    /\ UNCHANGED << requestVars, interactions, agents, returned, now, posts, schedules, nextTask, sweep, webhooks,
                    servicePasses, submissions, exhausted >>

(* Lines 33-38: the loaded object gets the result and is saved whole *)
PublishedRow(loaded, result, t) ==
    [ loaded EXCEPT !.platform_post_id = result.post_id,
                    !.platform_url = result.url,
                    !.status = "PUBLISHED",
                    !.published_at = t ]

(* fault injection: the failure is marked without its message *)
FailedRow_NoMessage(row, msg) == [ row EXCEPT !.status = "FAILED" ]

(* Lines 47-51: the post is read again, marked and saved *)
FailedRow(row, msg) ==
    [ row EXCEPT !.status = "FAILED", !.error_message = msg ]

(* Lines 33-41 on success, lines 43-56 on an exception *)
HandlerFinish(x) ==
    /\ x \in running
    /\ x.kind = "post"
    /\ running' = running \ {x}
    /\ IF x.outcome.ok
       THEN /\ posts' = [posts EXCEPT ![x.post] =
                             PublishedRow(x.loaded, x.outcome, now)]
            /\ UNCHANGED << queue, exhausted >>
       ELSE /\ posts' = [posts EXCEPT ![x.post] =
                             FailedRow(posts[x.post], x.outcome.msg)]
            /\ RetryEffect(x, TaskMaxRetries, queue)
    /\ UNCHANGED << requestVars, interactions, agents, returned, now, schedules, nextTask, sweep, webhooks, servicePasses,
                    submissions >>

(* a caller queues the task for a post: post_to_social_media.delay(id) *)
Submit(p) ==
    /\ nextTask <= MaxTasks
    /\ queue' = queue \cup { Message(nextTask, "post", p, 0, 0) }
    /\ nextTask' = nextTask + 1
    /\ UNCHANGED << requestVars, interactions, agents, returned, now, posts, schedules, running, sweep, webhooks,
                    servicePasses, submissions,
                    exhausted >>

(* -------------------- ai_agents/tasks.py ------------------------------- *)
(* generate_campaign_content queues generate_ai_content.delay(...) *)
SubmitAi ==
    /\ nextTask <= MaxTasks
    /\ queue' = queue \cup { Message(nextTask, "ai", None, 0, 0) }
    /\ nextTask' = nextTask + 1
    /\ UNCHANGED << requestVars, interactions, agents, returned, now, posts, schedules, running, sweep, webhooks,
                    servicePasses, submissions,
                    exhausted >>

(* AIService.generate_content is declared `async def` as well: the task,   *)
(* which does not await it, gets a coroutine object and returns it.        *)
generate_content == Coroutine

(* Lines 21-41: the lookups of the user and of the agent raise when no row *)
(* (or, for the agent type, more than one row) matches; otherwise the task *)
(* calls the service and returns what it got.                              *)
AiLookupMsgs == { "AIAgent matching query does not exist." }

AiLoad(m) ==
    /\ m \in queue
    /\ m.kind = "ai"
    /\ \E o \in {generate_content} \cup { Raise(msg) : msg \in AiLookupMsgs } :
          running' = running \cup
              { [ task |-> m.task, kind |-> m.kind, post |-> m.post,
                  retries |-> m.retries, loaded |-> None, outcome |-> o ] }
    /\ queue' = queue \ {m}
    /\ UNCHANGED << requestVars, interactions, agents, returned, now, posts, schedules, nextTask, sweep, webhooks,
                    servicePasses, submissions, exhausted >>

(* Lines 43-48: the task returns, or the except clause retries *)
AiFinish(x) ==
    /\ x \in running
    /\ x.kind = "ai"
    /\ running' = running \ {x}
    /\ IF x.outcome.ok
       THEN UNCHANGED << queue, exhausted >>
       ELSE RetryEffect(x, AiTaskMaxRetries, queue)
    /\ UNCHANGED << requestVars, interactions, agents, returned, now, posts, schedules, nextTask, sweep, webhooks,
                    servicePasses, submissions >>

(* ------------------- tasks.py: process_scheduled_posts ------------------ *)
(* the filter of lines 64-66 *)
IsDue(row, t) == row.scheduled_time <= t /\ ~row.is_processed

Due(t) == { s \in SchedIds : IsDue(schedules[s], t) }

(* Meta.ordering = ["scheduled_time"] *)
Before(a, b) ==
    \/ schedules[a].scheduled_time < schedules[b].scheduled_time
    \/ /\ schedules[a].scheduled_time = schedules[b].scheduled_time
       /\ SchedRank[a] < SchedRank[b]

RECURSIVE Ordered(_)
Ordered(S) ==
    IF S = {} THEN << >>
    ELSE LET first == CHOOSE a \in S : \A b \in S \ {a} : Before(a, b)
         IN  << first >> \o Ordered(S \ {first})

(* The queryset is evaluated once, when the for loop starts: the pass      *)
(* works on copies of the rows, each with its post (select_related).       *)
Snapshot(t) ==
    LET ids == Ordered(Due(t)) IN
    [ k \in 1..Len(ids) |->
        [ id |-> ids[k], row |-> schedules[ids[k]],
          post |-> posts[schedules[ids[k]].post] ] ]

SweepStart(w) ==
    /\ sweep[w].pc = "idle"
    /\ sweep' = [sweep EXCEPT ![w] =
                    [IdleSweep EXCEPT !.pc = "loop", !.snap = Snapshot(now)]]
    /\ UNCHANGED << requestVars, interactions, agents, returned, now, posts, schedules, queue, running, nextTask, webhooks,
                    servicePasses, submissions,
                    exhausted >>

(* lines 76-77 *)
MarkProcessed(row, t) == [row EXCEPT !.is_processed = TRUE, !.processed_at = t]

(* lines 87-90 *)
ScheduleRetry(row, t) ==
    [ row EXCEPT !.retry_count = row.retry_count + 1,
                 !.next_retry = t + RetryStepMinutes * (row.retry_count + 1) ]

(* fault injection: the entry that ran out of retries is left unprocessed *)
GiveUp_Unmarked(row, t, msg) == [ row EXCEPT !.error_message = msg ]

(* lines 94-96 *)
GiveUp(row, t, msg) ==
    [ row EXCEPT !.is_processed = TRUE, !.processed_at = t,
                 !.error_message = msg ]

(* lines 100-101, on the post object the snapshot holds *)
MaxRetriesExceeded(post, msg) ==
    [ post EXCEPT !.status = "FAILED",
                  !.error_message = "Max retries exceeded: " \o msg ]

(* line 86 *)
MayRetry(row) == row.retry_count < row.max_retries

(* The except clause, lines 82-102, on the in-memory schedule object `row` *)
(* as the try block left it.                                               *)
SweepFailure(s, row, post, msg) ==
    IF MayRetry(row)
    THEN /\ schedules' = [schedules EXCEPT ![s] = ScheduleRetry(row, now)]
         /\ posts' = posts
    ELSE /\ schedules' = [schedules EXCEPT ![s] = GiveUp(row, now, msg)]
         /\ posts' = [posts EXCEPT ![row.post] = MaxRetriesExceeded(post, msg)]

SweepNote(w, s, counted, sent) ==
    sweep' = [sweep EXCEPT
        ![w].i = @ + 1,
        ![w].count = IF counted THEN @ + 1 ELSE @,
        ![w].submitted = IF sent THEN @ \cup {s} ELSE @,
        ![w].marked = IF schedules'[s].is_processed THEN @ \cup {s} ELSE @ ]

EnqueuePost(s, p) ==
    /\ nextTask <= MaxTasks
    /\ queue' = queue \cup { Message(nextTask, "post", p, 0, 0) }
    /\ nextTask' = nextTask + 1
    /\ submissions' = [submissions EXCEPT ![s] = @ + 1]

(* One iteration of the loop, lines 70-102.  "ok": .delay() and save()     *)
(* succeed.  "delay fails": .delay() raises.  "save fails": .delay() has   *)
(* sent the task and schedule.save() of line 78 raises, after lines 76-77  *)
(* changed the object.                                                     *)
SweepOk(w, e) ==
    /\ EnqueuePost(e.id, e.row.post)
    /\ schedules' = [schedules EXCEPT ![e.id] = MarkProcessed(e.row, now)]
    /\ posts' = posts
    /\ SweepNote(w, e.id, TRUE, TRUE)

SweepDelayFails(w, e) ==
    \E msg \in BrokerMsgs :
       /\ SweepFailure(e.id, e.row, e.post, msg)
       /\ SweepNote(w, e.id, FALSE, FALSE)
       /\ UNCHANGED << queue, nextTask, submissions >>

SweepSaveFails(w, e) ==
    \E msg \in BrokerMsgs :
       /\ EnqueuePost(e.id, e.row.post)
       /\ SweepFailure(e.id, MarkProcessed(e.row, now), e.post, msg)
       /\ SweepNote(w, e.id, FALSE, TRUE)

(* The database stays unavailable: after .delay() raised (sent = FALSE) or *)
(* save() of line 78 raised (sent = TRUE), the first save() of the except  *)
(* clause, line 91 or 97, raises as well.  No handler encloses it but the  *)
(* one of lines 107-109, which logs and re-raises: the loop is left.       *)
SweepRecordFails(w, e) ==
    \E sent \in BOOLEAN :
       /\ IF sent THEN EnqueuePost(e.id, e.row.post)
                  ELSE UNCHANGED << queue, nextTask, submissions >>
       /\ UNCHANGED << schedules, posts >>
       /\ sweep' = [sweep EXCEPT
              ![w].pc = "raised",
              ![w].submitted = IF sent THEN @ \cup {e.id} ELSE @ ]

SweepStep(w) ==
    /\ sweep[w].pc = "loop"
    /\ sweep[w].i <= Len(sweep[w].snap)
    /\ LET e == sweep[w].snap[sweep[w].i] IN
       \/ SweepOk(w, e)
       \/ SweepDelayFails(w, e)
       \/ SweepSaveFails(w, e)
       \/ SweepRecordFails(w, e)
    /\ UNCHANGED << requestVars, interactions, agents, returned, now, running, webhooks, servicePasses, exhausted >>

(* lines 104-105: the pass returns processed_count *)
SweepReturn(w) == sweep[w].count

(* the task ends: by the return of line 105 or by the raise of line 109 *)
SweepEnd(w) ==
    /\ \/ sweep[w].pc = "loop" /\ sweep[w].i > Len(sweep[w].snap)
       \/ sweep[w].pc = "raised"
    /\ sweep' = [sweep EXCEPT ![w] = IdleSweep]
    /\ UNCHANGED << requestVars, interactions, agents, returned, now, posts, schedules, queue, running, nextTask, webhooks,
                    servicePasses, submissions,
                    exhausted >>

(* -------- services.py: SocialMediaService.process_scheduled_posts ------- *)
(* One entry of the loop, lines 204-237, on the state st = [posts,         *)
(* schedules]; o is what the platform API does if it is reached.    *)
(* post.post_id is no column of SocialMediaPost: save() does not store it. *)
ServiceEntry(st, s, o, t) ==
    LET p == st.schedules[s].post
        post == st.posts[p]
        known == post.platform \in PlatformKeys
        r == IF known THEN LinkedInService_post(o)
             ELSE Raise("'" \o post.platform \o "'")
        newPost == IF r.ok
                   THEN [post EXCEPT !.status = "published", !.published_at = t]
                   ELSE [post EXCEPT !.status = "failed",
                                     !.error_message = r.msg]
        newRow == IF r.ok
                  THEN MarkProcessed(st.schedules[s], t)
                  ELSE GiveUp(st.schedules[s], t, r.msg)
    IN  [ posts |-> [st.posts EXCEPT ![p] = newPost],
          schedules |-> [st.schedules EXCEPT ![s] = newRow] ]

RECURSIVE ServiceLoop(_, _, _, _)
ServiceLoop(st, ids, f, t) ==
    IF ids = << >> THEN st
    ELSE ServiceLoop(ServiceEntry(st, Head(ids), f[Head(ids)], t), Tail(ids), f, t)

(* A whole pass, taken as one step (a pass with nothing due changes nothing) *)
ServiceSweep ==
    /\ servicePasses < MaxServicePasses
    /\ Due(now) # {}
    /\ \E f \in [Due(now) -> ThirdParty] :
          LET st == ServiceLoop([posts |-> posts, schedules |-> schedules],
                                Ordered(Due(now)), f, now)
          IN  /\ posts' = st.posts
              /\ schedules' = st.schedules
    /\ servicePasses' = servicePasses + 1
    /\ UNCHANGED << requestVars, interactions, agents, returned, now, queue, running, nextTask, sweep, webhooks,
                    submissions, exhausted >>

(* ------------------ tasks.py: process_social_webhooks ------------------- *)
(* SocialMediaPost.objects.get(platform_post_id=x): one row, or            *)
(* DoesNotExist, or MultipleObjectsReturned (which the task re-raises);    *)
(* x = None selects the rows whose platform_post_id is NULL.               *)
Matching(x) == { p \in PostIds : posts[p].platform_post_id = x }

WebhookPublished(row, t) == [row EXCEPT !.status = "PUBLISHED", !.published_at = t]

Webhook(event, x) ==
    /\ webhooks < MaxWebhooks
    /\ webhooks' = webhooks + 1
    /\ IF event = "POST_PUBLISHED" /\ Cardinality(Matching(x)) = 1
       THEN LET p == CHOOSE q \in Matching(x) : TRUE
            IN  posts' = [posts EXCEPT ![p] = WebhookPublished(posts[p], now)]
       ELSE posts' = posts
    /\ UNCHANGED << requestVars, interactions, agents, returned, now, schedules, queue, running, nextTask, sweep,
                    servicePasses, submissions,
                    exhausted >>

(* ------------------------------- time ----------------------------------- *)
Tick ==
    /\ now < MaxTime
    /\ now' = now + 1
    /\ UNCHANGED << requestVars, interactions, agents, returned, posts, schedules, queue, running, nextTask, sweep, webhooks,
                    servicePasses, submissions,
                    exhausted >>

(* how a maintenance task or a property call ends *)
TaskReturn(task, value) == [ task |-> task, ok |-> TRUE, value |-> value ]
TaskRaise(task, msg) == [ task |-> task, ok |-> FALSE, value |-> msg ]

(* ------------- models.py: SocialMediaPost.engagement_rate --------------- *)
(* A rate is kept as the exact quotient num / den; the property's integer  *)
(* 0 is 0 / 1.  (engagement / impressions) * 100 is e * 100 / i.           *)
Zero == [ num |-> 0, den |-> 1 ]
Quotient(num, den) == [ num |-> num, den |-> den ]

(* metrics.get(key, 0) *)
MetricsGet(metrics, key) == IF key \in DOMAIN metrics THEN metrics[key] ELSE 0

(* sum(v for k, v in metrics.items() if k in keys) *)
RECURSIVE SumItems(_, _)
SumItems(metrics, keys) ==
    IF keys \cap DOMAIN metrics = {} THEN 0
    ELSE LET k == CHOOSE x \in keys \cap DOMAIN metrics : TRUE
         IN  metrics[k] + SumItems(metrics, keys \ {k})

(* fault injection: quotes are left out of the Twitter engagement *)
TwitterEngagement_NoQuotes(metrics) ==
    MetricsGet(metrics, "likes") + MetricsGet(metrics, "retweets")
        + MetricsGet(metrics, "replies")

(* lines 197-203 *)
TwitterEngagement(metrics) ==
    MetricsGet(metrics, "likes") + MetricsGet(metrics, "retweets")
        + MetricsGet(metrics, "replies") + MetricsGet(metrics, "quotes")

(* lines 204-209 *)
LinkedInEngagement(metrics) ==
    MetricsGet(metrics, "likes") + MetricsGet(metrics, "comments")
        + MetricsGet(metrics, "shares")

(* lines 186-217 *)
engagement_rate(post) ==
    IF DOMAIN post.metrics = {} \/ "impressions" \notin DOMAIN post.metrics
    THEN Zero
    ELSE LET impressions == MetricsGet(post.metrics, "impressions")
             engagement ==
                 IF post.platform = "TWITTER"
                 THEN TwitterEngagement(post.metrics)
                 ELSE IF post.platform = "LINKEDIN"
                 THEN LinkedInEngagement(post.metrics)
                 ELSE SumItems(post.metrics,
                               {"likes", "comments", "shares", "reactions"})
         IN  IF impressions = 0 THEN Zero
             ELSE IF impressions > 0
             THEN Quotient(engagement * 100, impressions)
             ELSE Zero

(* a caller reads the property of post p *)
ReadEngagementRate(p) ==
    /\ returned' = TaskReturn("engagement_rate", engagement_rate(posts[p]))
    /\ UNCHANGED << requestVars, now, posts, schedules, queue, running, nextTask, sweep,
                    webhooks, servicePasses, submissions, exhausted,
                    interactions, agents >>

(* --------------------------- maintenance tasks -------------------------- *)
RetentionDays == 90         \* cleanup_ai_interactions: timedelta(days=90)
FailedPostDays == 30        \* cleanup_failed_posts: timedelta(days=30)
ProcessedScheduleDays == 7  \* cleanup_failed_posts: timedelta(days=7)
MetricsWindowHours == 24    \* sync_ai_agent_metrics: timedelta(hours=24)

(* timedelta(days=n), timedelta(hours=n) in minutes, the unit of `now` *)
Days(n) == n * 24 * 60
Hours(n) == n * 60

(* the columns of the models, by which the ORM resolves a lookup keyword *)
AIAgentFields ==
    { "id", "name", "agent_type", "description", "model", "temperature",
      "max_tokens", "context_limit", "status", "total_interactions",
      "success_rate", "average_response_time", "created_at", "updated_at",
      "last_active" }

AIInteractionFields ==
    { "id", "user", "agent", "prompt", "context", "response", "model_used",
      "tokens_used", "response_time", "cost", "user_rating", "feedback",
      "is_successful", "error_message", "timestamp" }

SocialMediaPostFields ==
    { "id", "user", "account", "platform", "post_type", "content",
      "media_urls", "media_metadata", "platform_post_id", "platform_url",
      "scheduled_time", "published_at", "status", "error_message", "metrics",
      "last_metrics_update", "is_ai_generated", "ai_prompt", "ai_agent_used",
      "campaign_id", "created_at", "updated_at" }

SocialMediaScheduleFields ==
    { "id", "post", "scheduled_time", "timezone", "is_processed",
      "processed_at", "retry_count", "max_retries", "next_retry",
      "error_message", "created_at", "updated_at" }

(* QuerySet.filter(keyword=...) raises FieldError, when it is called, for  *)
(* a keyword that names no column of the model                             *)
FieldError(keyword) == "Cannot resolve keyword '" \o keyword \o "' into field."

Restrict(table, ids) == [ id \in ids |-> table[id] ]

(* ai_agents/tasks.py 387-403.  The except clause logs and re-raises.      *)
cleanup_ai_interactions ==
    /\ IF "created_at" \in AIInteractionFields
       THEN LET cutoff_date == now - Days(RetentionDays)
                old_interactions ==
                    { i \in interactions : i.created_at < cutoff_date }
            IN  /\ interactions' = interactions \ old_interactions
                /\ returned' = TaskReturn("cleanup_ai_interactions",
                                          Cardinality(old_interactions))
       ELSE /\ interactions' = interactions
            /\ returned' = TaskRaise("cleanup_ai_interactions",
                                     FieldError("created_at"))
    /\ UNCHANGED << requestVars, now, posts, schedules, queue, running, nextTask, sweep,
                    webhooks, servicePasses, submissions, exhausted, agents >>

(* ai_agents/tasks.py 214-249.  The first filter names is_active, the      *)
(* second created_at; models.Avg of line 236 names a module the file does  *)
(* not import; agent.save() of line 243 comes after all three.             *)
Recent(a, t) ==
    { i \in interactions : i.agent = a /\ i.timestamp >= t - Hours(MetricsWindowHours) }

sync_ai_agent_metrics ==
    /\ returned' =
          IF "is_active" \notin AIAgentFields
          THEN TaskRaise("sync_ai_agent_metrics", FieldError("is_active"))
          ELSE IF { a \in DOMAIN agents : agents[a].is_active } = {}
          THEN TaskReturn("sync_ai_agent_metrics", None)
          ELSE IF "created_at" \notin AIInteractionFields
          THEN TaskRaise("sync_ai_agent_metrics", FieldError("created_at"))
          ELSE IF \E a \in DOMAIN agents :
                     agents[a].is_active /\ Recent(a, now) # {}
          THEN TaskRaise("sync_ai_agent_metrics", "name 'models' is not defined")
          ELSE TaskReturn("sync_ai_agent_metrics", None)
    /\ agents' = agents
    /\ UNCHANGED << requestVars, now, posts, schedules, queue, running, nextTask, sweep,
                    webhooks, servicePasses, submissions, exhausted,
                    interactions >>

(* social_media/tasks.py 416-447.  Deleting a post deletes the schedule    *)
(* that points to it (OneToOneField, on_delete=CASCADE); a NULL            *)
(* processed_at satisfies no comparison.                                   *)
cleanup_failed_posts ==
    /\ LET cutoff_date == now - Days(FailedPostDays)
           failed_posts ==
               { p \in DOMAIN posts : /\ posts[p].status = "FAILED"
                                      /\ posts[p].created_at < cutoff_date }
           cascade == { s \in DOMAIN schedules : schedules[s].post \in failed_posts }
           remaining == DOMAIN schedules \ cascade
           old_schedules ==
               { s \in remaining :
                    /\ schedules[s].is_processed
                    /\ schedules[s].processed_at # NoTime
                    /\ schedules[s].processed_at < now - Days(ProcessedScheduleDays) }
       IN  /\ posts' = Restrict(posts, DOMAIN posts \ failed_posts)
           /\ schedules' = Restrict(schedules, remaining \ old_schedules)
           /\ returned' = TaskReturn("cleanup_failed_posts",
                  [ failed_posts_cleaned |-> Cardinality(failed_posts),
                    schedules_cleaned |-> Cardinality(old_schedules) ])
    /\ UNCHANGED << requestVars, now, queue, running, nextTask, sweep, webhooks,
                    servicePasses, submissions, exhausted, interactions,
                    agents >>

(* -------------------- tasks.py: bulk_schedule_posts --------------------- *)
(* An item of posts_data: platform is None when the key is missing, iso    *)
(* tells whether scheduled_time is a well-formed ISO string.               *)
BulkItems ==
    { [ platform |-> pf, iso |-> TRUE, scheduled_time |-> t ] :
         pf \in {"TWITTER", "LINKEDIN"}, t \in {0, 1} }
    \cup { [ platform |-> None, iso |-> TRUE, scheduled_time |-> 0 ],
           [ platform |-> "TWITTER", iso |-> FALSE, scheduled_time |-> NoTime ] }

(* the lists a caller passes: as many items as the tables have ids for *)
BulkInputs == UNION { [1..n -> BulkItems] : n \in 0..Cardinality(PostIds) }

(* what the database does to the two writes of an item *)
DatabaseFaults == {"none", "post", "schedule"}
DatabaseMsg == "connection already closed"

(* uuid.uuid4 for a new row: an id no row of the table has *)
FreshId(ids, table) == CHOOSE id \in ids \ DOMAIN table : TRUE

(* SocialMediaPost.objects.create(..., status="SCHEDULED",                 *)
(* scheduled_time=...): the row of lines 216-225                           *)
ScheduledPost(platform, t) ==
    LET row == NewPost(platform, "SCHEDULED")
    IN  [ k \in DOMAIN row \cup {"scheduled_time"} |->
             IF k = "scheduled_time" THEN t ELSE row[k] ]

ErrorItem(msg, post_data) == [ error |-> msg, post_data |-> post_data ]

(* One iteration of the loop, lines 213-243, on st = [posts, schedules,    *)
(* scheduled_posts].  The arguments of create are evaluated first          *)
(* (KeyError, ValueError); then the post is stored, then the schedule;     *)
(* whatever is raised, the except clause appends an error item.            *)
BulkItem(st, post_data, fault) ==
    LET p == FreshId(PostIds, st.posts)
        s == FreshId(SchedIds, st.schedules)
        post == ScheduledPost(post_data.platform, post_data.scheduled_time)
        withPost == [ k \in DOMAIN st.posts \cup {p} |->
                        IF k = p THEN post ELSE st.posts[k] ]
        withSchedule == [ k \in DOMAIN st.schedules \cup {s} |->
                            IF k = s THEN NewSchedule(p, post.scheduled_time)
                            ELSE st.schedules[k] ]
        failed(msg) == Append(st.scheduled_posts, ErrorItem(msg, post_data))
    IN  CASE post_data.platform = None ->
                [ st EXCEPT !.scheduled_posts = failed("'platform'") ]
          [] post_data.platform # None /\ ~post_data.iso ->
                [ st EXCEPT !.scheduled_posts = failed("Invalid isoformat string") ]
          [] OTHER ->
                CASE fault = "post" ->
                        [ st EXCEPT !.scheduled_posts = failed(DatabaseMsg) ]
                  [] fault = "schedule" ->
                        [ st EXCEPT !.posts = withPost,
                                    !.scheduled_posts = failed(DatabaseMsg) ]
                  [] OTHER ->
                        [ posts |-> withPost, schedules |-> withSchedule,
                          scheduled_posts |->
                             Append(st.scheduled_posts,
                                    [ post_id |-> p, schedule_id |-> s,
                                      platform |-> post.platform,
                                      scheduled_time |-> post.scheduled_time ]) ]

RECURSIVE BulkLoop(_, _, _)
BulkLoop(st, posts_data, faults) ==
    IF posts_data = << >> THEN st
    ELSE BulkLoop(BulkItem(st, Head(posts_data), Head(faults)),
                  Tail(posts_data), Tail(faults))

(* the task, called once with the user's list; it returns scheduled_posts *)
bulk_schedule_posts(posts_data, faults) ==
    /\ returned.task # "bulk_schedule_posts"
    /\ LET st == BulkLoop([ posts |-> posts, schedules |-> schedules,
                            scheduled_posts |-> << >> ],
                          posts_data, [ k \in 1..Len(posts_data) |-> faults[k] ])
       IN  /\ posts' = st.posts
           /\ schedules' = st.schedules
           /\ returned' = [ task |-> "bulk_schedule_posts", ok |-> TRUE,
                            value |-> st.scheduled_posts, args |-> posts_data ]
    /\ UNCHANGED << requestVars, now, queue, running, nextTask, sweep, webhooks,
                    servicePasses, submissions, exhausted, interactions, agents >>

(* --------------- the services that callers reach directly --------------- *)
(* TwitterService.post and AIService.generate_content, awaited by their    *)
(* caller (a view or a marketing agent), each behind a per-user counter    *)
(* kept in the cache.                                                      *)
TwitterLimit == 20             \* _check_rate_limit: current_requests >= 20
GeminiRateLimitRpm == 2        \* settings.GEMINI_RATE_LIMIT_RPM of the deployment
MaxInteractions == 3           \* AI calls made over a run
ResponseTimes == {1, 2}        \* time.time() - start_time of a call
UserId == "u1"
Providers == {"gemini", "openai"}
Services == {"twitter"} \cup Providers

(* AIService.__init__: self.rate_limits has an entry for gemini only *)
rate_limits ==
    [ p \in {"gemini"} |-> [ requests_per_minute |-> GeminiRateLimitRpm ] ]

(* the f-strings that name a counter *)
CacheKey(service, user) ==
    IF service = "twitter"
    THEN "twitter_rate_limit:" \o user
    ELSE "rate_limit:" \o service \o ":" \o user

(* cache.get(key, default) and cache.set(key, value, ttl) *)
CacheGet(c, key, default) == IF key \in DOMAIN c THEN c[key] ELSE default
CacheSet(c, key, value) ==
    [ k \in DOMAIN c \cup {key} |-> IF k = key THEN value ELSE c[k] ]
CacheDrop(c, key) == [ k \in DOMAIN c \ {key} |-> c[k] ]

(* a check that lets one call too many through *)
LimitReached_OffByOne(current_requests, limit) == current_requests > limit

(* `if current_requests >= limit: return False` *)
LimitReached(current_requests, limit) == current_requests >= limit

(* the limit a check compares with: 20 for Twitter, the provider's         *)
(* requests_per_minute when the provider is in self.rate_limits            *)
HasLimit(service) == service = "twitter" \/ service \in DOMAIN rate_limits
LimitOf(service) ==
    IF service = "twitter" THEN TwitterLimit
    ELSE rate_limits[service].requests_per_minute

(* _check_rate_limit / check_rate_limit returning False, on the value the  *)
(* call read from the cache                                                *)
CheckFails(call) ==
    HasLimit(call.service) /\ LimitReached(call.current_requests, LimitOf(call.service))

(* an exception (class and str(e)), or no exception *)
Exc(cls, msg) == [ cls |-> cls, msg |-> msg ]
NoExc == Exc(None, "")
TwitterApi == { NoExc, Exc("TooManyRequests", "429 Too Many Requests"),
                Exc("Exception", "") }
ProviderApi == { NoExc, Exc("Exception", "") }

(* TwitterService.post: the try block raises RateLimitExceeded when the    *)
(* check fails and otherwise does what the API does; `except               *)
(* tweepy.TooManyRequests` turns the API's 429 into RateLimitExceeded and  *)
(* `except Exception` wraps everything else raised in the block.           *)
TwitterTry(call, api) ==
    IF CheckFails(call) THEN Exc("RateLimitExceeded", "Twitter rate limit exceeded")
    ELSE api
TwitterService_post(call, api) ==
    LET e == TwitterTry(call, api)
    IN  CASE e.cls = None -> e
          [] e.cls = "TooManyRequests" ->
                Exc("RateLimitExceeded", "Twitter rate limit exceeded")
          [] OTHER -> Exc("SocialMediaError", "Twitter posting failed: " \o e.msg)

(* AIService.generate_content: the try block, and its one handler          *)
(* `except Exception`, which raises AIServiceError                         *)
GenerateTry(call, api) ==
    IF CheckFails(call)
    THEN Exc("RateLimitExceeded", "Rate limit exceeded for " \o call.service)
    ELSE api
AIService_generate_content(call, api) ==
    LET e == GenerateTry(call, api)
    IN  IF e.cls = None THEN e
        ELSE Exc("AIServiceError", "Content generation failed: " \o e.msg)

(* AIService._record_interaction: the new AIInteraction row *)
NewInteraction(rows, agent, is_successful, response_time) ==
    [ id |-> Cardinality(rows) + 1, agent |-> agent,
      is_successful |-> is_successful, timestamp |-> now,
      response_time |-> response_time ]

(* AIService._record_interaction: the agent's metrics.  total_interactions *)
(* grows by one; the average and the success rate are set inside           *)
(* `if is_successful:`; the average takes the sample itself when it was 0. *)
RunningAverage(old, n, sample) ==
    IF old.num = 0 THEN Quotient(sample, 1)
    ELSE Quotient(old.num * (n - 1) + sample * old.den, old.den * n)

record_interaction(agent, rows, a, is_successful, response_time) ==
    LET total == agent.total_interactions + 1
        successful_interactions ==
            Cardinality({ i \in rows : i.agent = a /\ i.is_successful })
    IN  IF is_successful
        THEN [ agent EXCEPT
                 !.total_interactions = total,
                 !.average_response_time =
                     RunningAverage(agent.average_response_time, total, response_time),
                 !.success_rate = Quotient(successful_interactions * 100, total) ]
        ELSE [ agent EXCEPT !.total_interactions = total ]

(* what the caller of a service gets *)
CallResult(task, e, api_called) ==
    [ task |-> task, ok |-> e.cls = None, value |-> e.msg, exc |-> e.cls,
      api_called |-> api_called ]

NoResult == CallResult(None, NoExc, FALSE)

(* the first half of a rate-limit check: cache.get(cache_key, 0) *)
CallStart(c, service) ==
    /\ calls[c].pc = "idle"
    /\ service \in Providers => Cardinality(interactions) < MaxInteractions
    /\ calls' = [calls EXCEPT ![c] =
                    [ pc |-> "checked", service |-> service,
                      current_requests |->
                          CacheGet(cache, CacheKey(service, UserId), 0) ]]
    /\ UNCHANGED << now, posts, schedules, queue, running, nextTask, sweep,
                    webhooks, servicePasses, submissions, exhausted,
                    interactions, agents, returned, cache, admitted, nonces,
                    issued, logins >>

(* the rest of the call: the comparison, cache.set(cache_key,              *)
(* current_requests + 1, ttl), the API, and for an AI provider the         *)
(* interaction that both branches of generate_content record               *)
CallFinish(c) ==
    /\ calls[c].pc = "checked"
    /\ LET call == calls[c]
           key == CacheKey(call.service, UserId)
       IN  /\ IF CheckFails(call)
              THEN UNCHANGED << cache, admitted >>
              ELSE /\ cache' = CacheSet(cache, key, call.current_requests + 1)
                   /\ admitted' = CacheSet(admitted, key, CacheGet(admitted, key, 0) + 1)
           /\ IF call.service = "twitter"
              THEN \E api \in TwitterApi :
                      /\ returned' = CallResult("TwitterService.post",
                                                TwitterService_post(call, api),
                                                ~CheckFails(call))
                      /\ UNCHANGED << interactions, agents >>
              ELSE \E api \in ProviderApi, a \in DOMAIN agents,
                      response_time \in ResponseTimes :
                      LET ok == GenerateTry(call, api).cls = None
                          rows == interactions
                                    \cup {NewInteraction(interactions, a, ok, response_time)}
                      IN  /\ interactions' = rows
                          /\ agents' = [agents EXCEPT ![a] =
                                 record_interaction(agents[a], rows, a, ok, response_time)]
                          /\ returned' = CallResult("AIService.generate_content",
                                                    AIService_generate_content(call, api),
                                                    ~CheckFails(call))
    /\ calls' = [calls EXCEPT ![c] = NoCall]
    /\ UNCHANGED << now, posts, schedules, queue, running, nextTask, sweep,
                    webhooks, servicePasses, submissions, exhausted, nonces,
                    issued, logins >>

(* the cache drops a counter when its time to live has passed *)
Expire(key) ==
    /\ key \in DOMAIN cache
    /\ cache' = CacheDrop(cache, key)
    /\ admitted' = CacheDrop(admitted, key)
    /\ UNCHANGED << now, posts, schedules, queue, running, nextTask, sweep,
                    webhooks, servicePasses, submissions, exhausted,
                    interactions, agents, returned, calls, nonces, issued,
                    logins >>


(* ------------------ urls.py: web3_get_nonce, web3_verify ----------------- *)
MaxNonces == 2                  \* nonces drawn over a run
Wallets == {"0xa"}              \* lower-case addresses of 42 characters
Signers == Wallets \cup {"0xb"} \* the keys that sign: the wallet's and another
Malformed == [ signer |-> None, nonce |-> 0 ]

(* what a client can present: a signature by some key of the login message *)
(* of a nonce that has been drawn, or bytes that are no signature          *)
Signatures ==
    { [ signer |-> k, nonce |-> n ] : k \in Signers, n \in 1..MaxNonces }
    \cup {Malformed}

(* Account.recover_message(message, signature): the signer's address when  *)
(* the signature is over this message, some other address when it is over  *)
(* another message, an exception when it is no signature                   *)
recover_message(nonce, signature) ==
    CASE signature = Malformed -> Exc("Exception", "")
      [] signature # Malformed /\ signature.nonce = nonce ->
            [ cls |-> None, msg |-> signature.signer ]
      [] OTHER -> [ cls |-> None, msg |-> "0x?" ]

(* Web3Nonce.objects.update_or_create(address=..., defaults={"nonce": n})  *)
(* and rec.delete(), which deletes the row whose primary key rec has       *)
update_or_create(rows, address, nonce) ==
    [ a \in DOMAIN rows \cup {address} |-> IF a = address THEN nonce ELSE rows[a] ]
delete(rows, address) == [ a \in DOMAIN rows \ {address} |-> rows[a] ]

Response(view, status, detail) ==
    [ task |-> view, ok |-> status = 200, value |-> detail ]

(* lines 113-119: secrets.token_hex(16) draws a nonce never drawn before;  *)
(* update_or_create stores it in the address's row                         *)
web3_get_nonce(c, address) ==
    /\ calls[c].pc = "idle"
    /\ issued < MaxNonces
    /\ IF address \notin Wallets
       THEN /\ returned' = Response("web3_get_nonce", 400, "invalid address")
            /\ UNCHANGED << nonces, issued >>
       ELSE /\ issued' = issued + 1
            /\ nonces' = update_or_create(nonces, address, issued + 1)
            /\ returned' = Response("web3_get_nonce", 200, "nonce")
    /\ UNCHANGED << now, posts, schedules, queue, running, nextTask, sweep,
                    webhooks, servicePasses, submissions, exhausted,
                    interactions, agents, cache, calls, admitted, logins >>

(* lines 125-132: the row of the address is read, or the view answers      *)
(* 'nonce not found'                                                       *)
VerifyRead(c, address, signature) ==
    /\ calls[c].pc = "idle"
    /\ signature # Malformed => signature.nonce <= issued
    /\ IF address \notin DOMAIN nonces
       THEN /\ returned' = Response("web3_verify", 400, "nonce not found")
            /\ calls' = calls
       ELSE /\ calls' = [calls EXCEPT ![c] =
                           [ pc |-> "verify", address |-> address,
                             signature |-> signature, rec |-> nonces[address] ]]
            /\ returned' = returned
    /\ UNCHANGED << now, posts, schedules, queue, running, nextTask, sweep,
                    webhooks, servicePasses, submissions, exhausted,
                    interactions, agents, cache, admitted, nonces, issued,
                    logins >>

(* lines 133-151: the signer is recovered from the message of rec.nonce;   *)
(* on a match the token of the address's user is handed out and            *)
(* rec.delete() removes the row of the address, whatever it holds by now   *)
VerifyAnswer(c) ==
    /\ calls[c].pc = "verify"
    /\ LET call == calls[c]
           recovered == recover_message(call.rec, call.signature)
       IN  CASE recovered.cls # None ->
                   /\ returned' = Response("web3_verify", 400, "invalid signature")
                   /\ UNCHANGED << nonces, logins >>
             [] recovered.cls = None /\ recovered.msg # call.address ->
                   /\ returned' = Response("web3_verify", 400, "address mismatch")
                   /\ UNCHANGED << nonces, logins >>
             [] OTHER ->
                   /\ returned' = Response("web3_verify", 200, "token")
                   /\ nonces' = delete(nonces, call.address)
                   /\ logins' = logins \cup
                         { [ id |-> Cardinality(logins) + 1,
                             address |-> call.address, nonce |-> call.rec ] }
    /\ calls' = [calls EXCEPT ![c] = NoCall]
    /\ UNCHANGED << now, posts, schedules, queue, running, nextTask, sweep,
                    webhooks, servicePasses, submissions, exhausted,
                    interactions, agents, cache, admitted, issued >>

(* --------------------------- specification ------------------------------ *)
(* no task execution is in progress *)
Idle == running = {} /\ \A w \in Sweepers : sweep[w].pc = "idle"

(* Spec: one worker process of concurrency 1 ("w1") executes the tasks,    *)
(* one at a time; callers queue tasks and time passes at any moment.       *)
Next ==
    \/ \E m \in queue : Idle /\ HandlerLoad(m)
    \/ \E x \in running : HandlerFinish(x)
    \/ \E p \in PostIds : Submit(p)
    \/ SubmitAi
    \/ \E m \in queue : Idle /\ AiLoad(m)
    \/ \E x \in running : AiFinish(x)
    \/ Idle /\ SweepStart("w1")
    \/ SweepStep("w1")
    \/ SweepEnd("w1")
    \/ Idle /\ ServiceSweep
    \/ \E x \in ExternalIds \cup {None} :
          \E event \in {"POST_PUBLISHED", "LIKE"} : Idle /\ Webhook(event, x)
    \/ Tick

Spec == Init /\ [][Next]_vars

(* SpecSweepers: the workers of Sweepers run process_scheduled_posts       *)
(* concurrently; the tasks they submit wait in the queue.                  *)
NextSweepers ==
    \/ \E w \in Sweepers : SweepStart(w)
    \/ \E w \in Sweepers : SweepStep(w)
    \/ \E w \in Sweepers : SweepEnd(w)
    \/ Tick

SpecSweepers == Init /\ [][NextSweepers]_vars

(* SpecHandlers: the task queue and the two retrying handlers alone, with  *)
(* callers queueing tasks at any moment.                                   *)
NextHandlers ==
    \/ \E m \in queue : Idle /\ HandlerLoad(m)
    \/ \E x \in running : HandlerFinish(x)
    \/ \E p \in PostIds : Submit(p)
    \/ SubmitAi
    \/ \E m \in queue : Idle /\ AiLoad(m)
    \/ \E x \in running : AiFinish(x)
    \/ Tick

SpecHandlers == Init /\ [][NextHandlers]_vars

(* SpecWorkers: a pool of worker processes takes messages off the queue    *)
(* whenever one is there, so executions run side by side; a sweeper pass   *)
(* and direct callers submit posts.                                        *)
NextWorkers ==
    \/ \E m \in queue : HandlerLoad(m)
    \/ \E x \in running : HandlerFinish(x)
    \/ \E p \in PostIds : Submit(p)
    \/ SweepStart("w1")
    \/ SweepStep("w1")
    \/ SweepEnd("w1")
    \/ Tick

SpecWorkers == Init /\ [][NextWorkers]_vars

(* SpecScheduled: the path of a scheduled post under fair scheduling.      *)
(* Celery beat starts process_scheduled_posts again and again, a started   *)
(* task runs to its end, and a worker takes every message that waits and   *)
(* finishes every execution it began; the clock moves on.  The failures    *)
(* are those of the queue (.delay() raises, or the write after it) and of  *)
(* the call of the adapter; a pass is not cut short by the database.       *)
SweepEntry(w) == SweepStep(w) /\ sweep'[w].pc = "loop"

NextScheduled ==
    \/ SweepStart("w1")
    \/ SweepEntry("w1")
    \/ SweepEnd("w1")
    \/ \E m \in queue : HandlerLoad(m)
    \/ \E x \in running : HandlerFinish(x)
    \/ Tick

FairScheduled ==
    /\ WF_vars(SweepStart("w1"))
    /\ WF_vars(SweepEntry("w1"))
    /\ WF_vars(SweepEnd("w1"))
    /\ WF_vars(\E m \in queue : HandlerLoad(m))
    /\ WF_vars(\E x \in running : HandlerFinish(x))
    /\ WF_vars(Tick)

SpecScheduled == Init /\ [][NextScheduled]_vars /\ FairScheduled

(* SpecMaintenance: the periodic maintenance tasks on a database that has  *)
(* been in use for months: posts that ended PUBLISHED or failed (by the    *)
(* handler, the task sweeper or the service-level sweeper), their          *)
(* schedules, and the interactions of an agent.                            *)
AgentIds == {"a1"}
InteractionIds == {"i1", "i2"}

OldPosts ==
    { [ NewPost(platform, status) EXCEPT !.created_at = 0 - Days(d) ] :
         platform \in {"LINKEDIN"}, status \in {"PUBLISHED", "FAILED", "failed"},
         d \in {FailedPostDays - 1, FailedPostDays + 1} }

OldSchedules(p) ==
    { NewSchedule(p, 0 - Days(1)) }
    \cup { MarkProcessed(NewSchedule(p, 0 - Days(d)), 0 - Days(d)) :
              d \in {1, ProcessedScheduleDays + 1} }

OldInteractions(i) ==
    { [ id |-> i, agent |-> "a1", is_successful |-> ok, timestamp |-> t ] :
         ok \in BOOLEAN,
         t \in { 0 - Days(RetentionDays + 1), 0 - Days(RetentionDays - 1),
                 0 - Hours(1) } }

InitMaintenance ==
    /\ now = 0
    /\ posts \in [PostIds -> OldPosts]
    /\ \E f \in [SchedIds -> UNION { OldSchedules(p) : p \in PostIds }] :
          /\ \A s \in SchedIds : f[s].post = PostOf[s]
          /\ schedules = f
    /\ \E g \in [InteractionIds -> UNION { OldInteractions(i) : i \in InteractionIds }] :
          /\ \A i \in InteractionIds : g[i].id = i
          /\ interactions = { g[i] : i \in InteractionIds }
    /\ agents \in [AgentIds -> { [ status |-> st, success_rate |-> 0 ] :
                                   st \in {"ACTIVE", "INACTIVE"} }]
    /\ returned = NoReturn
    /\ DispatchInit

NextMaintenance ==
    \/ cleanup_ai_interactions
    \/ sync_ai_agent_metrics
    \/ cleanup_failed_posts
    \/ Tick

SpecMaintenance == InitMaintenance /\ [][NextMaintenance]_vars

(* SpecEngagement: one post whose metrics were filled in by the platform   *)
(* API (counts, each key present or not), and callers that read its        *)
(* engagement_rate.                                                        *)
CountKeys == {"likes", "retweets", "replies", "quotes", "comments", "shares",
              "reactions"}
Counts == 0..MaxMetric
ImpressionCounts == {0, 3, 1000}

(* the metrics of test_post_engagement_rate_calculation *)
TestMetrics ==
    [ k \in {"impressions", "likes", "retweets", "replies", "quotes"} |->
        CASE k = "impressions" -> 1000
          [] k = "likes" -> 50
          [] k = "retweets" -> 10
          [] k = "replies" -> 5
          [] k = "quotes" -> 3 ]

WithImpressions(counts, impressions) ==
    [ k \in DOMAIN counts \cup {"impressions"} |->
        IF k = "impressions" THEN impressions ELSE counts[k] ]

CountInputs == UNION { [K -> Counts] : K \in SUBSET CountKeys }

MetricsInputs ==
    CountInputs
    \cup { WithImpressions(counts, impressions) :
              counts \in CountInputs, impressions \in ImpressionCounts }
    \cup {TestMetrics}

InitEngagement ==
    /\ now = 0
    /\ \E platform \in {"TWITTER", "LINKEDIN", "FACEBOOK"} :
       \E metrics \in MetricsInputs :
          posts = [ p \in {"p1"} |->
                      [ NewPost(platform, "PUBLISHED") EXCEPT !.metrics = metrics ] ]
    /\ schedules = [ s \in {} |-> None ]
    /\ interactions = {}
    /\ agents = [ a \in {} |-> None ]
    /\ returned = NoReturn
    /\ DispatchInit

NextEngagement == \E p \in DOMAIN posts : ReadEngagementRate(p)

SpecEngagement == InitEngagement /\ [][NextEngagement]_vars

(* SpecBulk: bulk_schedule_posts called on empty tables with a list of     *)
(* items, well formed or not, while the database may refuse a write.       *)
InitBulk ==
    /\ now = 0
    /\ posts = [ p \in {} |-> None ]
    /\ schedules = [ s \in {} |-> None ]
    /\ interactions = {}
    /\ agents = [ a \in {} |-> None ]
    /\ returned = NoReturn
    /\ DispatchInit

NextBulk ==
    \E posts_data \in BulkInputs :
       \E faults \in [1..Len(posts_data) -> DatabaseFaults] :
          bulk_schedule_posts(posts_data, faults)

SpecBulk == InitBulk /\ [][NextBulk]_vars

(* SpecLogin: wallets ask for nonces and present signatures; the requests  *)
(* are served side by side by the workers of the web server.               *)
InitLogin == InitBulk

NextLogin ==
    \/ \E c \in Callers, address \in Wallets \cup {"0x"} : web3_get_nonce(c, address)
    \/ \E c \in Callers, address \in Wallets, signature \in Signatures :
          VerifyRead(c, address, signature)
    \/ \E c \in Callers : VerifyAnswer(c)

SpecLogin == InitLogin /\ [][NextLogin]_vars

(* SpecServices: one user's calls of TwitterService.post and               *)
(* AIService.generate_content for one agent, each call finished before the *)
(* next begins; counters expire between calls.                             *)
NoCallInProgress == \A c \in Callers : calls[c].pc = "idle"

InitServices ==
    /\ now = 0
    /\ posts = [ p \in {} |-> None ]
    /\ schedules = [ s \in {} |-> None ]
    /\ interactions = {}
    /\ agents = [ a \in AgentIds |->
                    [ status |-> "ACTIVE", total_interactions |-> 0,
                      average_response_time |-> Zero, success_rate |-> Zero ] ]
    /\ returned = NoResult
    /\ DispatchInit

NextServices ==
    \/ \E c \in Callers, service \in Services :
          NoCallInProgress /\ CallStart(c, service)
    \/ \E c \in Callers : CallFinish(c)
    \/ \E key \in DOMAIN cache : NoCallInProgress /\ Expire(key)

SpecServices == InitServices /\ [][NextServices]_vars

(* SpecConcurrentCalls: one service under load.  The calls of one user to  *)
(* the same rate-limited service are served side by side, as the workers   *)
(* of a web server serve them, within one lifetime of that service's       *)
(* counter: a call may read the counter between the read and the write of  *)
(* another call.                                                           *)
UnderLoad(service) ==
    /\ HasLimit(service)
    /\ \A k \in DOMAIN cache : k = CacheKey(service, UserId)
    /\ \A c \in Callers : calls[c].pc # "idle" => calls[c].service = service

NextConcurrentCalls ==
    \/ \E c \in Callers, service \in Services :
          UnderLoad(service) /\ CallStart(c, service)
    \/ \E c \in Callers : CallFinish(c)

SpecConcurrentCalls == InitServices /\ [][NextConcurrentCalls]_vars

(* ------------------------------- claims --------------------------------- *)
(* the step in which execution x of a handler ends, and ends in its        *)
(* except clause                                                           *)
PostTasks == { x \in running : x.kind = "post" }
Finishes(x) == x \in running /\ x \notin running'
Fails(x) == Finishes(x) /\ ~x.outcome.ok
Redeliveries(task) == { m \in queue' \ queue : m.task = task }

(* the lifecycle state a stored status stands for: the service-level       *)
(* sweeper spells its two outcomes in lower case                           *)
Lifecycle(status) ==
    CASE status = "published" -> "PUBLISHED"
      [] status = "failed" -> "FAILED"
      [] OTHER -> status

(* C1: once a post is PUBLISHED or FAILED, no step of a handler, a sweeper *)
(* or the webhook processing moves it to another lifecycle state; in       *)
(* particular a FAILED post never becomes PUBLISHED.                       *)
C1_TerminalStatusKept ==
    [][ \A p \in PostIds :
           Lifecycle(posts[p].status) \in {"PUBLISHED", "FAILED"}
              => Lifecycle(posts'[p].status) = Lifecycle(posts[p].status) ]_vars

(* a post that carries the handler's failure and has been published since *)
C1_FailedThenPublished ==
    \E p \in PostIds :
       /\ Lifecycle(posts[p].status) = "PUBLISHED"
       /\ posts[p].published_at # NoTime
       /\ posts[p].error_message = "'coroutine' object has no attribute 'get'"

ExpectedCountdown(n) == CASE n = 0 -> 60 [] n = 1 -> 120 [] n = 2 -> 240

C3_Backoff ==
    /\ [][ \A x \in running : (Fails(x) /\ x.retries < 3) =>
              \A m \in Redeliveries(x.task) :
                 /\ m.countdown = ExpectedCountdown(x.retries)
                 /\ m.retries = x.retries + 1 ]_vars
    /\ [][ \A m \in queue : \A x \in running' \ running :
              x.task = m.task => x.retries = m.retries ]_vars

(* the redelivery after attempt 2 of each handler, with countdown 240,     *)
(* and an execution of post_to_social_media that sees the counter 3        *)
C3_ThirdRedelivery ==
    /\ \E m \in queue : m.kind = "ai" /\ m.retries = 3 /\ m.countdown = 240
    /\ \E x \in running : x.kind = "post" /\ x.retries = 3

(* C4: a failed attempt of post_to_social_media that can still be retried  *)
(* leaves the post's status as it was (or IN_PROGRESS) and writes no error *)
(* message: FAILED is written by the exhausting attempt only.              *)
C4_FailedOnlyWhenExhausted ==
    [][ \A x \in PostTasks : (Fails(x) /\ x.retries < TaskMaxRetries) =>
           /\ posts'[x.post].status \in {posts[x.post].status, "IN_PROGRESS"}
           /\ posts'[x.post].error_message = posts[x.post].error_message ]_vars

(* the first redelivery is pending and the post is already FAILED *)
C4_FailedWhileRetryPending ==
    \E m \in queue :
       /\ m.kind = "post" /\ m.retries = 1
       /\ posts[m.post].status = "FAILED"
       /\ posts[m.post].error_message # ""
       /\ exhausted = {}

(* C5: every post that is PUBLISHED carries a non-empty platform_post_id, *)
(* whichever component published it.                                       *)
C5_PublishedHasExternalId ==
    \A p \in PostIds :
       Lifecycle(posts[p].status) = "PUBLISHED"
          => NonEmpty(posts[p].platform_post_id)

(* the service-level sweeper has published the post of an entry and        *)
(* stored no external id                                                   *)
C5_PublishedWithoutId ==
    \E s \in SchedIds :
       /\ schedules[s].is_processed /\ schedules[s].error_message = ""
       /\ posts[PostOf[s]].status = "published"
       /\ posts[PostOf[s]].published_at = schedules[s].processed_at
       /\ posts[PostOf[s]].platform_post_id = None

(* C6: every post that is FAILED carries a non-empty error_message,        *)
(* whichever component marked it and whatever the str() of the exception.  *)
C6_FailedHasMessage ==
    \A p \in PostIds :
       Lifecycle(posts[p].status) = "FAILED" => NonEmpty(posts[p].error_message)

(* one post FAILED by the handler with its retries exhausted, the other by *)
(* the sweeper at the entry's retry limit after an exception whose str()   *)
(* is empty                                                                *)
C6_FailedByHandlerAndSweeper ==
    /\ \E e \in exhausted : e.kind = "post" /\ e.post = "p1"
    /\ posts["p1"].status = "FAILED"
    /\ posts["p1"].error_message = "'coroutine' object has no attribute 'get'"
    /\ posts["p2"].status = "FAILED"
    /\ posts["p2"].error_message = "Max retries exceeded: "

(* C7: an execution of post_to_social_media for a post that is PUBLISHED   *)
(* leaves the post's record (platform_post_id, platform_url, status,       *)
(* published_at) as it is.                                                 *)
C7_PublishedNotReposted ==
    [][ \A x \in PostTasks :
           ( /\ Finishes(x)
             /\ Lifecycle(x.loaded.status) = "PUBLISHED"
             /\ posts[x.post] = x.loaded )
              => posts'[x.post] = posts[x.post] ]_vars

(* a post that was published and that the handler has marked FAILED since *)
C7_PublishedThenFailed ==
    \E p \in PostIds :
       /\ posts[p].status = "FAILED"
       /\ posts[p].published_at # NoTime
       /\ posts[p].error_message = "'coroutine' object has no attribute 'get'"

(* C8: under concurrent passes of process_scheduled_posts the post of a    *)
(* Schedule Entry is submitted to the queue at most once.                  *)
C8_ClaimedOnce == \A s \in SchedIds : submissions[s] <= 1

(* both passes have submitted the post of the same entry *)
C8_SubmittedByBoth ==
    \E s \in SchedIds :
       /\ \A w \in Sweepers : s \in sweep[w].submitted
       /\ submissions[s] = 2
       /\ Cardinality({ m \in queue : m.post = PostOf[s] }) = 2

(* C9: a pass reads exactly the entries that are due and unprocessed; when *)
(* it ends every entry it submitted is marked processed and its return     *)
(* value is the number of entries it submitted and marked (an entry whose  *)
(* submission raised is left to the retry policy of C10); a step of the    *)
(* pass neither submits nor modifies an entry that is not due or is        *)
(* processed, and is_processed never returns from true to false.           *)
PassIds(pass) == { pass.snap[k].id : k \in 1..Len(pass.snap) }
PassDone(pass) == pass.pc = "loop" /\ pass.i > Len(pass.snap)

C9_PassEffect ==
    /\ [][ \A w \in Sweepers :
              (sweep[w].pc = "idle" /\ sweep'[w].pc = "loop")
                 => PassIds(sweep'[w]) = Due(now) ]_vars
    /\ [](\A w \in Sweepers : PassDone(sweep[w]) =>
              /\ sweep[w].submitted \subseteq PassIds(sweep[w])
              /\ sweep[w].submitted \subseteq sweep[w].marked
              /\ SweepReturn(w) =
                    Cardinality(sweep[w].submitted \cap sweep[w].marked))
    /\ [][ sweep' # sweep =>
              \A s \in SchedIds : ~IsDue(schedules[s], now) =>
                 /\ schedules'[s] = schedules[s]
                 /\ submissions'[s] = submissions[s] ]_vars
    /\ [][ \A s \in SchedIds :
              schedules[s].is_processed => schedules'[s].is_processed ]_vars

(* a pass that submitted an entry and left it processed returns 0 *)
C9_SubmittedNotCounted ==
    \E w \in Sweepers :
       /\ PassDone(sweep[w])
       /\ sweep[w].submitted # {}
       /\ sweep[w].submitted \subseteq sweep[w].marked
       /\ SweepReturn(w) = 0

(* C10: retry_count never exceeds max_retries; a failed submission of an   *)
(* entry with retry_count < max_retries raises retry_count by one and      *)
(* leaves the entry unprocessed; at retry_count = max_retries it marks the *)
(* entry processed with the error and its post FAILED; an entry given up   *)
(* is never submitted again.                                               *)
SubmissionFails(w, s) ==
    /\ sweep[w].pc = "loop" /\ sweep[w].i <= Len(sweep[w].snap)
    /\ sweep[w].snap[sweep[w].i].id = s
    /\ sweep'[w].i = sweep[w].i + 1
    /\ submissions'[s] = submissions[s]

GivenUp(s) ==
    /\ schedules[s].is_processed
    /\ schedules[s].retry_count = schedules[s].max_retries
    /\ posts[PostOf[s]].status = "FAILED"

C10_EntryRetryPolicy ==
    /\ [](\A s \in SchedIds : schedules[s].retry_count <= schedules[s].max_retries)
    /\ [][ \A w \in Sweepers : \A s \in SchedIds : SubmissionFails(w, s) =>
              IF schedules[s].retry_count < schedules[s].max_retries
              THEN /\ schedules'[s].retry_count = schedules[s].retry_count + 1
                   /\ ~schedules'[s].is_processed
              ELSE /\ schedules'[s].is_processed
                   /\ schedules'[s].processed_at = now
                   /\ posts'[PostOf[s]].status = "FAILED"
                   /\ NonEmpty(posts'[PostOf[s]].error_message) ]_vars
    /\ [][ \A s \in SchedIds :
              GivenUp(s) => submissions'[s] = submissions[s] ]_vars

(* two overlapping passes have each recorded a failed submission of the    *)
(* same entry, and the entry's retry_count is 1                            *)
C10_LostRetry ==
    \E s \in SchedIds :
       /\ \A w \in Sweepers :
             /\ sweep[w].pc = "loop" /\ sweep[w].i > 1
             /\ sweep[w].snap[1].id = s
             /\ sweep[w].count = 0 /\ sweep[w].submitted = {}
       /\ schedules[s].retry_count = 1
       /\ ~schedules[s].is_processed

(* C11: a failed submission that raises an entry's retry_count to k sets   *)
(* next_retry to 5 * k minutes after the failure, and no pass of           *)
(* process_scheduled_posts handles the entry again before that time.       *)
Handles(w, s) ==
    /\ sweep[w].pc = "loop" /\ sweep[w].i <= Len(sweep[w].snap)
    /\ sweep[w].snap[sweep[w].i].id = s
    /\ sweep'[w] # sweep[w]

C11_RetryDelayed ==
    /\ [][ \A s \in SchedIds :
              schedules'[s].retry_count > schedules[s].retry_count
                 => schedules'[s].next_retry
                       = now + 5 * schedules'[s].retry_count ]_vars
    /\ [][ \A w \in Sweepers : \A s \in SchedIds :
              (Handles(w, s) /\ schedules[s].next_retry # NoTime)
                 => now >= schedules[s].next_retry ]_vars

(* an entry whose submission failed at minute 0 (next_retry = 5) has been  *)
(* submitted and marked processed by the pass of minute 1                  *)
C11_ResubmittedEarly ==
    \E s \in SchedIds :
       /\ schedules[s].retry_count = 1
       /\ schedules[s].next_retry = 5
       /\ schedules[s].is_processed
       /\ schedules[s].processed_at = 1
       /\ submissions[s] = 1
       /\ \E m \in queue : m.post = PostOf[s]

(* C12: in a pass of process_scheduled_posts a failure while handling one  *)
(* due entry (in .delay() or in a save() after it) is caught and recorded  *)
(* on that entry alone: the pass goes on to its next entry, the other      *)
(* entries' rows are untouched by the step, and when the pass ends every   *)
(* entry it read has been handled.                                         *)
C12_FailureIsolated ==
    /\ [][ \A w \in Sweepers : \A s \in SchedIds : Handles(w, s) =>
              /\ sweep'[w].pc = "loop"
              /\ sweep'[w].i = sweep[w].i + 1
              /\ submissions'[s] = submissions[s] => schedules'[s] # schedules[s]
              /\ \A t \in SchedIds \ {s} : schedules'[t] = schedules[t] ]_vars
    /\ [][ \A w \in Sweepers :
              (sweep[w].pc # "idle" /\ sweep'[w].pc = "idle")
                 => sweep[w].i > Len(sweep[w].snap) ]_vars

(* the pass has raised while handling its first entry: the second due      *)
(* entry was never submitted and is still unprocessed                      *)
C12_PassAborted ==
    /\ sweep["w1"].pc = "raised"
    /\ Len(sweep["w1"].snap) = 2 /\ sweep["w1"].i = 1
    /\ submissions[sweep["w1"].snap[2].id] = 0
    /\ ~schedules[sweep["w1"].snap[2].id].is_processed

(* C13: a failing execution of a task handler leaves a trace in persisted  *)
(* state before it raises or requests a retry: post_to_social_media the    *)
(* FAILED status and the exception's text on its post, generate_ai_content *)
(* a failed AIInteraction.                                                 *)
C13_FailureRecorded ==
    [][ \A x \in running : Fails(x) =>
           IF x.kind = "post"
           THEN /\ posts'[x.post].status = "FAILED"
                /\ posts'[x.post].error_message = x.outcome.msg
           ELSE \E i \in interactions' \ interactions : ~i.is_successful ]_vars

(* generate_ai_content has failed four times, its retries are used up, and *)
(* no AIInteraction exists                                                 *)
C13_AiFailedWithoutTrace ==
    /\ \E e \in exhausted : e.kind = "ai" /\ e.retries = AiTaskMaxRetries
    /\ \A m \in queue \cup running : m.kind # "ai"
    /\ interactions = {}

(* the step in which a run of the maintenance task `task` ends *)
Runs(task) == returned' # returned /\ returned'.task = task

(* C14: a run of cleanup_ai_interactions deletes exactly the interactions  *)
(* created more than 90 days before it, successful or not, leaves the      *)
(* others as they are and returns the number it deleted.                   *)
C14_OldInteractionsDeleted ==
    [][ Runs("cleanup_ai_interactions") =>
           LET old == { i \in interactions : i.timestamp < now - Days(90) }
           IN  /\ interactions' = interactions \ old
               /\ returned'.ok
               /\ returned'.value = Cardinality(old) ]_vars

(* cleanup_ai_interactions has run and raised; the interaction of 91 days  *)
(* ago is still there, beside the one of 89 days ago                       *)
C14_CleanupRaised ==
    /\ returned.task = "cleanup_ai_interactions"
    /\ ~returned.ok
    /\ \E i \in interactions : i.timestamp = now - Days(91)
    /\ \E i \in interactions : i.timestamp = now - Days(89)

(* C15: a run of cleanup_failed_posts removes exactly the failed posts     *)
(* created more than 30 days ago and exactly the schedule entries          *)
(* processed more than 7 days ago, leaves every other row unchanged and    *)
(* returns the two numbers of rows removed.                                *)
C15_CleanupFrame ==
    [][ Runs("cleanup_failed_posts") =>
           LET gonePosts ==
                   { p \in DOMAIN posts :
                        /\ Lifecycle(posts[p].status) = "FAILED"
                        /\ posts[p].created_at < now - Days(30) }
               goneSchedules ==
                   { s \in DOMAIN schedules :
                        /\ schedules[s].is_processed
                        /\ schedules[s].processed_at # NoTime
                        /\ schedules[s].processed_at < now - Days(7) }
           IN  /\ posts' = Restrict(posts, DOMAIN posts \ gonePosts)
               /\ schedules' = Restrict(schedules, DOMAIN schedules \ goneSchedules)
               /\ returned'.value.failed_posts_cleaned
                     = Cardinality(DOMAIN posts \ DOMAIN posts')
               /\ returned'.value.schedules_cleaned
                     = Cardinality(DOMAIN schedules \ DOMAIN schedules') ]_vars

(* a run has removed one post and reports no schedule removed, and the     *)
(* schedule of that post is gone                                           *)
C15_ScheduleGoneUncounted ==
    /\ returned.task = "cleanup_failed_posts"
    /\ returned.value.failed_posts_cleaned = 1
    /\ returned.value.schedules_cleaned = 0
    /\ DOMAIN posts = {"p2"}
    /\ DOMAIN schedules = {"s2"}

(* C19: after a run of sync_ai_agent_metrics every active agent with       *)
(* interactions in the last 24 hours has success_rate = successful / all   *)
(* of those interactions * 100 (1 of 2 gives 50); every other agent is     *)
(* unchanged.                                                              *)
C19_SuccessRate ==
    [][ Runs("sync_ai_agent_metrics") =>
           \A a \in DOMAIN agents :
              LET recent == { i \in interactions :
                                 i.agent = a /\ i.timestamp >= now - Hours(24) }
                  successful == { i \in recent : i.is_successful }
              IN  IF agents[a].status = "ACTIVE" /\ recent # {}
                  THEN agents'[a].success_rate * Cardinality(recent)
                          = Cardinality(successful) * 100
                  ELSE agents'[a] = agents[a] ]_vars

(* the task has run and raised; the active agent, with one successful and  *)
(* one failed interaction in the last hour, still has success_rate 0       *)
C19_RateNotUpdated ==
    /\ returned.task = "sync_ai_agent_metrics"
    /\ ~returned.ok
    /\ agents["a1"].status = "ACTIVE"
    /\ agents["a1"].success_rate = 0
    /\ \E i, j \in interactions :
          /\ i.is_successful /\ ~j.is_successful
          /\ i.timestamp = now - Hours(1) /\ j.timestamp = now - Hours(1)

(* C16: no two executions of post_to_social_media for the same post are in *)
(* progress at the same time, and an execution for a post starts only when *)
(* no other execution for that post is between its load and its write.     *)
C16_AttemptsOrdered ==
    \A x, y \in PostTasks : x.post = y.post => x = y

(* two executions for p1 are in progress: the task the sweeper submitted   *)
(* for s1 and a task submitted directly                                    *)
C16_TwoExecutionsOfOnePost ==
    /\ submissions["s1"] = 1
    /\ \E x, y \in PostTasks :
          x.task # y.task /\ x.post = "p1" /\ y.post = "p1"

(* C17: an execution of post_to_social_media on a DRAFT or SCHEDULED post  *)
(* whose call of the posting adapter did not raise stores the adapter's    *)
(* post id and url, sets PUBLISHED and published_at, and ends without      *)
(* requesting a retry.                                                     *)
C17_SuccessPublishes ==
    [][ \A x \in PostTasks :
           ( /\ Finishes(x)
             /\ x.loaded.status \in {"DRAFT", "SCHEDULED"}
             /\ post_content(x.loaded.platform).ok )
              => /\ x.outcome.ok
                 /\ posts'[x.post].status = "PUBLISHED"
                 /\ posts'[x.post].published_at = now
                 /\ posts'[x.post].platform_post_id = x.outcome.post_id
                 /\ posts'[x.post].platform_url = x.outcome.url
                 /\ Redeliveries(x.task) = {} ]_vars

(* the first execution for a post has ended: the post carries the          *)
(* AttributeError and no publication, and the retry is queued              *)
C17_ReturnedButFailed ==
    \E m \in queue :
       /\ m.kind = "post" /\ m.retries = 1 /\ m.countdown = 60
       /\ posts[m.post].error_message = "'coroutine' object has no attribute 'get'"
       /\ posts[m.post].published_at = NoTime
       /\ posts[m.post].platform_post_id = None

(* C18: the status of every post is one of DRAFT, SCHEDULED, IN_PROGRESS,  *)
(* PUBLISHED, FAILED, whichever component wrote it.                        *)
C18_StatusInChoices ==
    \A p \in DOMAIN posts :
       posts[p].status \in {"DRAFT", "SCHEDULED", "IN_PROGRESS", "PUBLISHED", "FAILED"}

(* the service-level sweeper has written both of its spellings *)
C18_LowerCaseStatuses ==
    /\ posts["p1"].status = "published"
    /\ posts["p2"].status = "failed"
    /\ \A s \in SchedIds : schedules[s].is_processed

(* C20: engagement_rate is 0 when the metrics are empty, lack the          *)
(* impressions key or have impressions = 0; otherwise it is engagement /   *)
(* impressions * 100 with engagement = likes + retweets + replies + quotes *)
(* for TWITTER, likes + comments + shares for LINKEDIN, and likes +        *)
(* comments + shares + reactions for any other platform; the metrics of    *)
(* the test (1000 impressions; 50, 10, 5, 3 on TWITTER) give 6.8.          *)
Metric(m, k) == IF k \in DOMAIN m THEN m[k] ELSE 0

ClaimedEngagement(platform, m) ==
    CASE platform = "TWITTER" ->
            Metric(m, "likes") + Metric(m, "retweets") + Metric(m, "replies")
               + Metric(m, "quotes")
      [] platform = "LINKEDIN" ->
            Metric(m, "likes") + Metric(m, "comments") + Metric(m, "shares")
      [] OTHER ->
            Metric(m, "likes") + Metric(m, "comments") + Metric(m, "shares")
               + Metric(m, "reactions")

TwitterKey == "twitter_rate_limit:" \o UserId
GeminiKey == "rate_limit:gemini:" \o UserId
LimitedKeys == {TwitterKey, GeminiKey}
ClaimedLimit(key) == IF key = TwitterKey THEN TwitterLimit ELSE GeminiRateLimitRpm
KeyOf(call) == IF call.service = "twitter" THEN TwitterKey ELSE GeminiKey

(* caller c's call of a rate-limited service returns in this step *)
Answers(c) ==
    /\ calls[c].pc = "checked"
    /\ calls[c].service \in {"twitter", "gemini"}
    /\ calls'[c].pc = "idle"

(* C21: a call rejected because the user's limit is exhausted fails with   *)
(* RateLimitExceeded itself, not with the service's generic error, and the *)
(* external API is not called, for TwitterService.post and for             *)
(* AIService.generate_content alike.                                       *)
C21_RejectedWithRateLimitExceeded ==
    [][ \A c \in Callers :
          ( /\ Answers(c)
            /\ CacheGet(cache, KeyOf(calls[c]), 0) >= ClaimedLimit(KeyOf(calls[c])) )
          => /\ returned'.exc = "RateLimitExceeded"
             /\ ~returned'.api_called ]_vars

(* the twenty-first tweet of a user was refused without reaching the API,  *)
(* and what the caller got is the generic SocialMediaError                 *)
C21_RejectedWithGenericError ==
    /\ TwitterKey \in DOMAIN cache /\ cache[TwitterKey] = TwitterLimit
    /\ returned.task = "TwitterService.post"
    /\ ~returned.api_called
    /\ returned.exc = "SocialMediaError"
    /\ returned.value = "Twitter posting failed: Twitter rate limit exceeded"

(* C22: in sequential use a rate-limit check admits the call and adds      *)
(* exactly one to the user's counter when the counter is below the limit,  *)
(* and otherwise rejects the call and leaves the counter as it is; the     *)
(* counter never exceeds the limit and no more than limit calls are        *)
(* admitted within one lifetime of the counter.                            *)
C22_CheckAdmitsBelowLimit ==
    /\ [](\A key \in LimitedKeys :
             /\ CacheGet(cache, key, 0) <= ClaimedLimit(key)
             /\ CacheGet(admitted, key, 0) <= ClaimedLimit(key))
    /\ [][ \A c \in Callers :
             Answers(c) =>
                LET key == KeyOf(calls[c])
                    before == CacheGet(cache, key, 0)
                IN  IF before < ClaimedLimit(key)
                    THEN /\ returned'.api_called
                         /\ cache' = CacheSet(cache, key, before + 1)
                    ELSE /\ ~returned'.api_called
                         /\ cache' = cache ]_vars

(* a user at the provider's limit has been refused a generation, after    *)
(* twenty tweets of the same user were admitted                            *)
C22_RefusedAtLimit ==
    /\ NoCallInProgress
    /\ returned.task = "AIService.generate_content"
    /\ ~returned.api_called
    /\ GeminiKey \in DOMAIN cache /\ cache[GeminiKey] = GeminiRateLimitRpm
    /\ admitted[GeminiKey] = GeminiRateLimitRpm
    /\ TwitterKey \in DOMAIN cache /\ cache[TwitterKey] = TwitterLimit
    /\ admitted[TwitterKey] = TwitterLimit

(* C28: concurrent rate-limit checks of one user lose no increment: the    *)
(* calls admitted during one lifetime of a counter never exceed the limit. *)
C28_NoLostIncrement ==
    \A key \in LimitedKeys \cap DOMAIN admitted : admitted[key] <= ClaimedLimit(key)

(* two tweets were checked side by side against a counter of 19: both were *)
(* admitted, the counter stands at 20 and 21 tweets went out               *)
C28_AdmittedBeyondLimit ==
    /\ NoCallInProgress
    /\ TwitterKey \in DOMAIN cache /\ cache[TwitterKey] = TwitterLimit
    /\ admitted[TwitterKey] = TwitterLimit + 1
    /\ returned.api_called


(* ------------------------ the metrics of an agent ------------------------ *)
(* the interactions recorded for an agent, and the successful ones *)
Recorded(rows, a) == { i \in rows : i.agent = a }
Successes(rows, a) == { i \in rows : i.agent = a /\ i.is_successful }

(* C24: every recorded interaction increments the agent's                  *)
(* total_interactions by exactly one; after a successful one               *)
(* average_response_time = (oldAvg * (n - 1) + sample) / n, with n the     *)
(* incremented total, and success_rate = successes / total * 100, for      *)
(* every prior value of oldAvg, 0 included.                                *)
C24_RunningAverage ==
    [][ \A i \in interactions' \ interactions :
          LET old == agents[i.agent]
              new == agents'[i.agent]
              n == old.total_interactions + 1
              oldAvg == old.average_response_time
          IN  /\ new.total_interactions = n
              /\ i.is_successful =>
                    /\ new.average_response_time.num * (oldAvg.den * n)
                          = (oldAvg.num * (n - 1) + i.response_time * oldAvg.den)
                               * new.average_response_time.den
                    /\ new.success_rate.num * n
                          = Cardinality(Successes(interactions', i.agent)) * 100
                               * new.success_rate.den ]_vars

(* the first interaction of an agent failed, the second succeeded in 2 s:  *)
(* the average stands at 2, where (0 * 1 + 2) / 2 is 1                     *)
C24_AverageIsSample ==
    \E a \in DOMAIN agents :
       /\ NoCallInProgress
       /\ agents[a].total_interactions = 2
       /\ \E i, j \in interactions :
             /\ i.id = 1 /\ ~i.is_successful
             /\ j.id = 2 /\ j.is_successful /\ j.response_time = 2
       /\ agents[a].average_response_time = Quotient(2, 1)

(* C30: after _record_interaction returns, for any sequence of successful  *)
(* and failed interactions, the agent's success_rate is                    *)
(* 100 * successes / total_interactions: a failed interaction updates it   *)
(* too.                                                                    *)
C30_SuccessRateCurrent ==
    NoCallInProgress =>
       \A a \in DOMAIN agents :
          agents[a].total_interactions > 0 =>
             agents[a].success_rate.num * agents[a].total_interactions
                = 100 * Cardinality(Successes(interactions, a))
                      * agents[a].success_rate.den

(* one success, then one failure: the rate still reads 100 *)
C30_StaleSuccessRate ==
    \E a \in DOMAIN agents :
       /\ NoCallInProgress
       /\ agents[a].total_interactions = 2
       /\ Cardinality(Recorded(interactions, a)) = 2
       /\ \E i, j \in interactions :
             /\ i.id = 1 /\ i.is_successful
             /\ j.id = 2 /\ ~j.is_successful
       /\ agents[a].success_rate = Quotient(100, 1)


(* --------------------------- platform adapters --------------------------- *)
(* the platforms of PLATFORM_CHOICES for which SocialMediaService has an   *)
(* adapter, and what a call of the adapter can hand back                   *)
AdapterPlatforms == {"TWITTER", "LINKEDIN", "FACEBOOK", "INSTAGRAM"}
AdapterResults == { LinkedInService_post(o) : o \in ThirdParty }

(* C25: for a post whose platform is TWITTER, LINKEDIN, FACEBOOK or        *)
(* INSTAGRAM an execution of post_to_social_media invokes that platform's  *)
(* adapter (what the execution gets is what the adapter hands back) and    *)
(* never fails with 'platform not supported'.                              *)
C25_AdapterInvoked ==
    [][ \A x \in PostTasks :
          ( Finishes(x) /\ x.loaded.platform \in AdapterPlatforms )
             => /\ x.outcome \in AdapterResults
                /\ x.outcome.msg # "Platform " \o x.loaded.platform \o " not supported" ]_vars

(* the execution for the LINKEDIN post has ended without any adapter       *)
(* having been called: the post carries the AttributeError of the          *)
(* un-awaited call, and its first redelivery is queued                     *)
C25_NoAdapterReached ==
    \E p \in DOMAIN posts :
       /\ posts[p].platform = "LINKEDIN"
       /\ posts[p].status = "FAILED"
       /\ posts[p].error_message = "'coroutine' object has no attribute 'get'"
       /\ posts[p].error_message \notin { r.msg : r \in AdapterResults }
       /\ \E m \in queue : m.post = p /\ m.retries = 1


(* -------------------- passes that follow one another --------------------- *)
(* C26: over any sequence of non-overlapping passes of                     *)
(* process_scheduled_posts the post of a Schedule Entry is submitted at    *)
(* most once, also when the enqueue succeeded and the write of             *)
(* is_processed that follows it failed: an entry once submitted is not     *)
(* submitted again.                                                        *)
C26_NotSubmittedAgain ==
    [][ \A s \in SchedIds :
          submissions[s] >= 1 => submissions'[s] = submissions[s] ]_vars

(* a pass enqueued the post, could not write the entry and ended with the  *)
(* exception; the next pass found the entry unprocessed and enqueued the   *)
(* post again: two messages for one post, and the entry as it was created  *)
C26_SubmittedByTwoPasses ==
    \E s \in SchedIds :
       /\ sweep["w1"].pc = "raised"
       /\ sweep["w2"] = IdleSweep
       /\ submissions[s] = 2
       /\ schedules[s] = NewSchedule(PostOf[s], schedules[s].scheduled_time)
       /\ Cardinality({ m \in queue : m.kind = "post" /\ m.post = PostOf[s] }) = 2


(* ------------------------ scheduled posts settle ------------------------- *)
(* the post of entry s has reached its end: PUBLISHED or FAILED, the entry *)
(* processed, no message for the post waiting or being executed            *)
Settled(s) ==
    /\ posts[PostOf[s]].status \in {"PUBLISHED", "FAILED"}
    /\ schedules[s].is_processed
    /\ \A m \in queue : m.kind = "post" => m.post # PostOf[s]
    /\ \A x \in running : x.kind = "post" => x.post # PostOf[s]

(* C27: under fair scheduling of the sweeper and of the task queue every   *)
(* post with a due Schedule Entry eventually reaches PUBLISHED or FAILED   *)
(* with its entry processed and no redelivery pending, whatever adapter    *)
(* and submission failures occur.                                          *)
C27_DuePostSettles ==
    \A s \in SchedIds : IsDue(schedules[s], now) ~> Settled(s)

(* both ways to the end have been gone: one post was submitted and failed  *)
(* in all its executions, the other was never submitted and was given up   *)
(* after the entry's retries                                               *)
C27_BothSettled ==
    /\ \A s \in SchedIds : Settled(s)
    /\ \E s \in SchedIds :
          /\ submissions[s] = 1
          /\ \E x \in exhausted : x.post = PostOf[s] /\ x.retries = TaskMaxRetries
    /\ \E s \in SchedIds :
          /\ submissions[s] = 0
          /\ schedules[s].retry_count = ScheduleMaxRetries
          /\ posts[PostOf[s]].error_message = "Max retries exceeded: "


(* ---------------------------- bulk scheduling ---------------------------- *)
(* the result items of a run that stand for a stored post *)
Processed(result) ==
    { k \in 1..Len(result) : "post_id" \in DOMAIN result[k] }
EntriesOf(p) == { s \in DOMAIN schedules' \ DOMAIN schedules : schedules'[s].post = p }

(* C23: a run of bulk_schedule_posts returns one result item per input     *)
(* item; each processed item has exactly one new SCHEDULED post with       *)
(* exactly one new unprocessed Schedule Entry of the same scheduled_time;  *)
(* a failing item yields an error item, leaves neither a post without an   *)
(* entry nor an entry without a post, and does not keep the other items    *)
(* from being processed.                                                   *)
C23_PostAndEntryTogether ==
    [][ Runs("bulk_schedule_posts") =>
          LET result == returned'.value
              input == returned'.args
              newPosts == DOMAIN posts' \ DOMAIN posts
              newEntries == DOMAIN schedules' \ DOMAIN schedules
          IN  /\ Len(result) = Len(input)
              /\ \A k \in Processed(result) :
                    LET p == result[k].post_id IN
                    /\ p \in newPosts
                    /\ posts'[p].status = "SCHEDULED"
                    /\ posts'[p].platform = input[k].platform
                    /\ \A j \in Processed(result) : result[j].post_id = p => j = k
                    /\ EntriesOf(p) = {result[k].schedule_id}
                    /\ schedules'[result[k].schedule_id] =
                          NewSchedule(p, posts'[p].scheduled_time)
              /\ \A k \in 1..Len(result) \ Processed(result) :
                    result[k] = ErrorItem(result[k].error, input[k])
              /\ \A p \in newPosts : Cardinality(EntriesOf(p)) = 1
              /\ \A s \in newEntries : schedules'[s].post \in newPosts
              /\ Cardinality(newPosts) = Cardinality(Processed(result))
              /\ \A k \in 1..Len(input) :
                    ( input[k].platform # None /\ input[k].iso )
                       => \/ k \in Processed(result)
                          \/ result[k].error = DatabaseMsg ]_vars

(* the write of the Schedule Entry of the first item was refused: the      *)
(* caller got an error item for it, its post is stored as SCHEDULED with   *)
(* no entry, and the second item was processed                             *)
C23_PostWithoutEntry ==
    /\ returned.task = "bulk_schedule_posts"
    /\ Len(returned.value) = 2
    /\ returned.value[1] = ErrorItem(DatabaseMsg, returned.args[1])
    /\ "post_id" \in DOMAIN returned.value[2]
    /\ Cardinality(DOMAIN posts) = 2
    /\ Cardinality(DOMAIN schedules) = 1
    /\ \E p \in DOMAIN posts :
          /\ posts[p].status = "SCHEDULED"
          /\ \A s \in DOMAIN schedules : schedules[s].post # p


(* ------------------------------ web3 login ------------------------------- *)
(* caller c's web3_verify answers in this step, with the given detail *)
Verified(c) == calls[c].pc = "verify" /\ calls'[c].pc = "idle"

(* C29: a nonce authenticates at most one successful web3_verify: a        *)
(* success deletes the nonce, so a replay of the same address and          *)
(* signature is rejected with 'nonce not found'; a failed verification     *)
(* issues no token and leaves the nonce in place; a new nonce request      *)
(* replaces the previous nonce.                                            *)
C29_NonceUsedOnce ==
    /\ [](\A k, l \in logins : k.nonce = l.nonce => k = l)
    /\ [][ /\ \A c \in Callers :
                Verified(c) =>
                   IF returned'.ok
                   THEN /\ calls[c].address \notin DOMAIN nonces'
                        /\ \E l \in logins' \ logins : l.nonce = calls[c].rec
                   ELSE /\ logins' = logins
                        /\ nonces' = nonces
           /\ \A a \in Wallets :
                ( a \notin DOMAIN nonces
                  /\ \E c \in Callers, sig \in Signatures : VerifyRead(c, a, sig) )
                   => /\ returned'.value = "nonce not found"
                      /\ logins' = logins
           /\ issued' # issued =>
                \A a \in DOMAIN nonces' :
                   nonces'[a] # CacheGet(nonces, a, 0) => nonces'[a] = issued' ]_vars

(* two requests presented the same signature side by side: both read the   *)
(* row before either deleted it, and both were handed the token            *)
C29_TwoLoginsOneNonce ==
    /\ NoCallInProgress
    /\ \E k, l \in logins :
          k.id # l.id /\ k.nonce = l.nonce /\ k.address = l.address
    /\ DOMAIN nonces = {}
    /\ returned = Response("web3_verify", 200, "token")

====
